---- MODULE Spec2Model ----
(***************************************************************************)
(* A model of segmentation_utils.py: kernel-size normalisation, the HSV    *)
(* trackbars and display windows, image / video loading and release, the   *)
(* aspect-ratio resize and the colour mask pipeline.                       *)
(*                                                                         *)
(* Every operation records its name in op and the exception it raised (or  *)
(* "None") in err.  Python's None is the empty tuple, a value x that may   *)
(* be None is the one-element tuple <<x>>.                                 *)
(***************************************************************************)
EXTENDS Integers, Sequences, FiniteSets, TLC

VARIABLES
    op,            \* name of the operation that ran last ("init" before any)
    err,           \* exception raised by that operation, "None" if it returned
    value,         \* argument of get_valid_kernel_size
    kernel_size,   \* its return value; the kernel_size argument of apply_mask
    trackbars,     \* trackbar name -> position (empty before create_trackbars)
    windows,       \* names of the existing HighGUI windows
    input_type,    \* argument of create_display_windows
    lower_bound,   \* get_trackbar_values()[0]; the lower_bound of apply_mask
    upper_bound,   \* get_trackbar_values()[1]; the upper_bound of apply_mask
    fs,            \* path -> what is stored there
    file_name,     \* argument of load_image / load_video
    img,           \* shape of the image load_image returned, None otherwise
    cap,           \* the VideoCapture object, None when there is none
    shape,         \* (h, w) of the image given to resize_with_aspect_ratio
    width,         \* its width argument
    height,        \* its height argument
    resized,       \* (h, w) of the image it returned, None otherwise
    image,         \* the BGR frame given to apply_mask
    mask,          \* the mask apply_mask returned
    result         \* the segmented result apply_mask returned

vars == <<op, err, value, kernel_size, trackbars, windows, input_type,
          lower_bound, upper_bound, fs, file_name, img, cap, shape, width,
          height, resized, image, mask, result>>

None == <<>>

Some(x) == <<x>>

Max(a, b) == IF a >= b THEN a ELSE b

Min(a, b) == IF a <= b THEN a ELSE b

----------------------------------------------------------------------------
(* Bounds of the model.                                                    *)

\* get_valid_kernel_size is applied to every integer in -MaxValue..MaxValue
MaxValue == 60

----------------------------------------------------------------------------
(* get_valid_kernel_size                                                   *)

\* Python's a | b on unbounded two's-complement integers: bit by bit, with
\* floor division so that a negative number is an infinite run of one bits.
RECURSIVE BitOr(_, _)
BitOr(a, b) ==
    IF a = 0 THEN b
    ELSE IF b = 0 THEN a
    ELSE IF a = -1 \/ b = -1 THEN -1
    ELSE 2 * BitOr(a \div 2, b \div 2) + Max(a % 2, b % 2)

\* faulty variant: the low bit is not forced on
get_valid_kernel_size_NoOr(v) == Max(1, v)

\* return max(1, value | 1)
get_valid_kernel_size(v) == Max(1, BitOr(v, 1))

----------------------------------------------------------------------------
(* Trackbars and windows                                                   *)

\* number of equal steps a slider is moved in: positions 0, count/Stops, ...
Stops == 2

TrackbarNames == {"LH", "LS", "LV", "UH", "US", "UV"}

\* the value argument of each cv2.createTrackbar call
TrackbarInit ==
    [LH |-> 0, LS |-> 50, LV |-> 50, UH |-> 179, US |-> 255, UV |-> 255]

\* the count argument of each cv2.createTrackbar call: positions are 0..count
TrackbarCount ==
    [LH |-> 179, LS |-> 255, LV |-> 255, UH |-> 179, US |-> 255, UV |-> 255]

\* the positions the user drags a slider to in this model
Positions(n) == {(i * TrackbarCount[n]) \div Stops : i \in 0..Stops}

\* faulty variant: the raw readings are returned without the min / max
get_trackbar_values_Raw(tb) ==
    << <<tb.LH, tb.LS, tb.LV>>, <<tb.UH, tb.US, tb.UV>> >>

\* the pair (lower_bound, upper_bound) computed from the six readings tb
get_trackbar_values(tb) ==
    LET l_h == tb.LH
        l_s == tb.LS
        l_v == tb.LV
        u_h == tb.UH
        u_s == tb.US
        u_v == tb.UV
    IN  << <<Min(l_h, u_h), Min(l_s, u_s), Min(l_v, u_v)>>,
           <<Max(l_h, u_h), Max(l_s, u_s), Max(l_v, u_v)>> >>

window_names == {"Mask", "Result", "Original"}

\* faulty variant: the windows are created before input_type is validated
create_display_windows_Late(ws, t) ==
    IF t \notin {"img", "video"}
    THEN [windows |-> ws \cup window_names, err |-> "ValueError"]
    ELSE [windows |-> ws \cup window_names, err |-> "None"]

\* the windows that exist after create_display_windows(t) and what it raised
create_display_windows(ws, t) ==
    IF t \notin {"img", "video"}
    THEN [windows |-> ws, err |-> "ValueError"]
    ELSE [windows |-> ws \cup window_names, err |-> "None"]

\* cv2.imshow on the three surfaces; shown is the set of arguments not None.
\* imshow creates a window that does not exist yet.
display_results(ws, shown) ==
    ws \cup (IF "frame" \in shown \/ "original" \in shown
             THEN {"Original"} ELSE {})
       \cup (IF "mask" \in shown THEN {"Mask"} ELSE {})
       \cup (IF "result" \in shown THEN {"Result"} ELSE {})

----------------------------------------------------------------------------
(* resize_with_aspect_ratio                                                *)

\* largest source height / width and target width / height drawn
MaxDim == 4

RECURSIVE GCD(_, _)
GCD(a, b) == IF b = 0 THEN a ELSE GCD(b, a % b)

RECURSIVE IsPow2(_)
IsPow2(n) == n = 1 \/ (n > 1 /\ n % 2 = 0 /\ IsPow2(n \div 2))

\* The values int(a * (num / float(den))) can take, for a, num >= 0 and
\* den >= 1.  The quotient num / den is a double: it is exact when the reduced
\* denominator is a power of two, and then so is the product.  Otherwise the
\* product of a with the rounded quotient lies within rounding of a*num/den:
\* when that is no integer, truncation gives its floor; when it is an integer
\* x, the double product is x or just below x, and truncation gives x or x-1
\* (int(15 * (49 / 3.0)) is 244, int(49 * (1 / 49.0)) is 0).
ScaleTrunc(a, num, den) ==
    LET x == a * num
    IN  IF x % den # 0 \/ IsPow2(den \div GCD(num, den))
        THEN {x \div den}
        ELSE {x \div den, (x \div den) - 1}

\* cv2.resize(image, dim): dim is (width, height); an empty size is an error
cv2_resize(dim) ==
    IF dim[1] <= 0 \/ dim[2] <= 0
    THEN [err |-> "cv2.error", shape |-> None]
    ELSE [err |-> "None", shape |-> Some(<<dim[2], dim[1]>>)]

\* faulty variant: with both given, each axis takes its own target
resize_with_aspect_ratio_Both(sh, w_arg, h_arg) ==
    LET h == sh[1]
        w == sh[2]
    IN  IF w_arg = None /\ h_arg = None
        THEN {[err |-> "None", shape |-> Some(sh)]}
        ELSE IF w_arg = None
        THEN {cv2_resize(<<d, h_arg[1]>>) : d \in ScaleTrunc(w, h_arg[1], h)}
        ELSE IF h_arg = None
        THEN {cv2_resize(<<w_arg[1], d>>) : d \in ScaleTrunc(h, w_arg[1], w)}
        ELSE {cv2_resize(<<w_arg[1], h_arg[1]>>)}

\* The outcomes of resize_with_aspect_ratio on an image of shape sh = (h, w):
\* what it raised and the shape (h, w) of the image it returned.
resize_with_aspect_ratio(sh, w_arg, h_arg) ==
    LET h == sh[1]
        w == sh[2]
    IN  IF w_arg = None /\ h_arg = None
        THEN {[err |-> "None", shape |-> Some(sh)]}
        ELSE IF w_arg = None
        THEN {cv2_resize(<<d, h_arg[1]>>) : d \in ScaleTrunc(w, h_arg[1], h)}
        ELSE {cv2_resize(<<w_arg[1], d>>) : d \in ScaleTrunc(h, w_arg[1], w)}

----------------------------------------------------------------------------
(* Files: check_file_access, load_image, load_video, release_video         *)

\* A file name or path is a tuple of one-character strings.
slash == <<"/">>

images_dir == <<"i", "m", "a", "g", "e", "s">>

videos_dir == <<"v", "i", "d", "e", "o", "s">>

notes_txt == <<"n", "o", "t", "e", "s", ".", "t", "x", "t">>

photo_png == <<"p", "h", "o", "t", "o", ".", "p", "n", "g">>

P_PNG == <<"P", ".", "P", "N", "G">>

clip_mp4 == <<"c", "l", "i", "p", ".", "m", "p", "4">>

\* the file names load_image and load_video are called with
FileNames == {notes_txt, photo_png, P_PNG, clip_mp4}

\* os.path.join(a, b) for a relative, non-empty a
path_join(a, b) ==
    IF Len(b) > 0 /\ b[1] = "/" THEN b
    ELSE IF a[Len(a)] = "/" THEN a \o b
    ELSE a \o slash \o b

\* the paths that may hold something; every other path does not exist
Paths ==
    {path_join(images_dir, notes_txt), path_join(images_dir, P_PNG),
     path_join(videos_dir, clip_mp4), path_join(videos_dir, notes_txt)}

\* what the decoders find in a regular file
Contents ==
    {[type |-> "garbage"], [type |-> "video"], [type |-> "empty_image"]}
    \cup {[type |-> "image", shape |-> sh] : sh \in {<<3, 4>>, <<1, 1024>>}}

\* what may be stored at a path
Entries ==
    {[kind |-> "missing"], [kind |-> "dir"]}
    \cup {[kind |-> "file", readable |-> FALSE, content |-> [type |-> "garbage"]]}
    \cup {[kind |-> "file", readable |-> TRUE, content |-> c] : c \in Contents}

Lookup(files, path) ==
    IF path \in DOMAIN files THEN files[path] ELSE [kind |-> "missing"]

\* str.lower() on the ASCII letters
LowerOf ==
    [A |-> "a", B |-> "b", C |-> "c", D |-> "d", E |-> "e", F |-> "f",
     G |-> "g", H |-> "h", I |-> "i", J |-> "j", K |-> "k", L |-> "l",
     M |-> "m", N |-> "n", O |-> "o", P |-> "p", Q |-> "q", R |-> "r",
     S |-> "s", T |-> "t", U |-> "u", V |-> "v", W |-> "w", X |-> "x",
     Y |-> "y", Z |-> "z"]

lower(s) ==
    [i \in 1..Len(s) |-> IF s[i] \in DOMAIN LowerOf THEN LowerOf[s[i]] ELSE s[i]]

\* s.endswith(suffixes) for a tuple (here a set) of suffixes
endswith(s, suffixes) ==
    \E suf \in suffixes :
        /\ Len(suf) <= Len(s)
        /\ SubSeq(s, Len(s) - Len(suf) + 1, Len(s)) = suf

valid_extensions ==
    {<<".", "j", "p", "g">>, <<".", "j", "p", "e", "g">>,
     <<".", "p", "n", "g">>, <<".", "b", "m", "p">>,
     <<".", "t", "i", "f", "f">>, <<".", "w", "e", "b", "p">>}

valid_video_extensions ==
    {<<".", "m", "p", "4">>, <<".", "a", "v", "i">>, <<".", "m", "o", "v">>,
     <<".", "m", "k", "v">>, <<".", "w", "m", "v">>, <<".", "f", "l", "v">>}

\* the exception check_file_access raises on file_path, "None" if it returns
check_file_access(files, file_path) ==
    LET e == Lookup(files, file_path)
    IN  IF e.kind = "missing" THEN "FileNotFoundError"
        ELSE IF e.kind # "file" THEN "ValueError"
        ELSE IF ~e.readable THEN "PermissionError"
        ELSE "None"

\* cv2.imread: None when the file does not decode, else the array's shape
\* (h, w); a zero-size array has shape (0, 0)
cv2_imread(files, path) ==
    LET e == Lookup(files, path)
    IN  IF e.kind # "file" \/ ~e.readable THEN None
        ELSE IF e.content.type = "image" THEN Some(e.content.shape)
        ELSE IF e.content.type = "empty_image" THEN Some(<<0, 0>>)
        ELSE None

\* the width load_image resizes to
load_width == 512

\* the body of load_image's try block: the outcomes before the except clause
load_image_try(files, path) ==
    LET decoded == cv2_imread(files, path)
    IN  IF decoded = None \/ decoded[1][1] * decoded[1][2] = 0
        THEN {[err |-> "ValueError", img |-> None]}
        ELSE {[err |-> r.err, img |-> r.shape] :
                 r \in resize_with_aspect_ratio(decoded[1], Some(load_width), None)}

\* faulty variant: the extension is validated before the file is looked at
load_image_ExtFirst(files, name) ==
    LET path == path_join(images_dir, name)
        access == check_file_access(files, path)
    IN  IF ~endswith(lower(path), valid_extensions)
        THEN {[err |-> "ValueError", img |-> None]}
        ELSE IF access # "None"
        THEN {[err |-> access, img |-> None]}
        ELSE {IF r.err # "None" THEN [err |-> "RuntimeError", img |-> None] ELSE r :
                 r \in load_image_try(files, path)}

\* The outcomes of load_image(name): what reaches the caller (err) and the
\* shape of the image returned.  except Exception catches every exception
\* raised in the try block, the ValueError of line 98 included.
load_image(files, name) ==
    LET path == path_join(images_dir, name)
        access == check_file_access(files, path)
    IN  IF access # "None"
        THEN {[err |-> access, img |-> None]}
        ELSE IF ~endswith(lower(path), valid_extensions)
        THEN {[err |-> "ValueError", img |-> None]}
        ELSE {IF r.err # "None" THEN [err |-> "RuntimeError", img |-> None] ELSE r :
                 r \in load_image_try(files, path)}

\* cv2.VideoCapture(path).isOpened(): a video opens, garbage does not; a
\* still image may or may not open as a one-frame sequence, by the backend
cv2_VideoCapture(files, path) ==
    LET e == Lookup(files, path)
    IN  IF e.kind # "file" \/ ~e.readable THEN {FALSE}
        ELSE IF e.content.type = "video" THEN {TRUE}
        ELSE IF e.content.type = "image" THEN {TRUE, FALSE}
        ELSE {FALSE}

\* The outcomes of load_video(name): what reaches the caller (err), and the
\* VideoCapture object line 127 constructed (None when it was not reached).
load_video(files, name) ==
    LET path == path_join(videos_dir, name)
        access == check_file_access(files, path)
    IN  IF access # "None"
        THEN {[err |-> access, cap |-> None]}
        ELSE IF ~endswith(lower(path), valid_video_extensions)
        THEN {[err |-> "ValueError", cap |-> None]}
        ELSE {IF opened
              THEN [err |-> "None", cap |-> Some("open")]
              ELSE [err |-> "RuntimeError", cap |-> Some("unopened")] :
                 opened \in cv2_VideoCapture(files, path)}

isOpened(c) == c = Some("open")

\* faulty variant: a cap that is None is not skipped
release_video_NoNoneCheck(c) ==
    IF c = None THEN [err |-> "AttributeError", cap |-> c]
    ELSE IF isOpened(c) THEN [err |-> "None", cap |-> Some("released")]
    ELSE [err |-> "None", cap |-> c]

\* release_video(cap): what it raised and the state it leaves cap in
release_video(c) ==
    IF c # None /\ isOpened(c)
    THEN [err |-> "None", cap |-> Some("released")]
    ELSE [err |-> "None", cap |-> c]

----------------------------------------------------------------------------
(* apply_mask                                                              *)

\* frames are FrameH rows of FrameW pixels
FrameW == 2

FrameH == 2

\* kernel sizes -1..MaxKernel are drawn
MaxKernel == 3

\* BGR pixels: black, a green of H=60 S=200 V=200, pure red, a magenta
Black == <<0, 0, 0>>

Colours == {Black, <<43, 200, 43>>, <<0, 0, 255>>, <<200, 50, 220>>}

\* a frame shows at most two of the colours
Frames ==
    UNION {[1..FrameH -> [1..FrameW -> {c1, c2}]] : c1, c2 \in Colours}

\* the (lower, upper) bound pairs drawn: the trackbar defaults, the narrow
\* green range, the full range, a range of bright pixels only, and a pair
\* whose hue bounds are out of order
BoundPairs ==
    {<< <<0, 50, 50>>, <<179, 255, 255>> >>,
     << <<50, 100, 100>>, <<70, 255, 255>> >>,
     << <<0, 0, 0>>, <<179, 255, 255>> >>,
     << <<0, 0, 240>>, <<179, 40, 255>> >>,
     << <<70, 100, 100>>, <<50, 255, 255>> >>}

\* round-half-even of num / den for positive num, den (cvRound of a double)
RoundDiv(num, den) ==
    LET q == num \div den
        r == num % den
    IN  IF 2 * r > den \/ (2 * r = den /\ q % 2 = 1) THEN q + 1 ELSE q

\* cv2.cvtColor(., COLOR_BGR2HSV) on one 8-bit pixel: OpenCV's fixed-point
\* conversion with a 12-bit shift and hue in 0..179
cvtColor_BGR2HSV(px) ==
    LET b == px[1]
        g == px[2]
        r == px[3]
        v == Max(b, Max(g, r))
        vmin == Min(b, Min(g, r))
        diff == v - vmin
        sdiv == IF v = 0 THEN 0 ELSE RoundDiv(255 * 4096, v)
        hdiv == IF diff = 0 THEN 0 ELSE RoundDiv(180 * 4096, 6 * diff)
        s == (diff * sdiv + 2048) \div 4096
        h0 == IF v = r THEN g - b
              ELSE IF v = g THEN b - r + 2 * diff
              ELSE r - g + 4 * diff
        h1 == (h0 * hdiv + 2048) \div 4096
        h == IF h1 < 0 THEN h1 + 180 ELSE h1
    IN  <<h, s, v>>

Rows(m) == Len(m)

Cols(m) == Len(m[1])

\* cv2.inRange on an HSV buffer: 255 where every channel is within its range
cv2_inRange(hsv, lo, hi) ==
    [y \in 1..Rows(hsv) |-> [x \in 1..Cols(hsv) |->
        IF \A c \in 1..3 : lo[c] <= hsv[y][x][c] /\ hsv[y][x][c] <= hi[c]
        THEN 255 ELSE 0]]

\* the samples under a k-by-k all-ones kernel anchored at its centre
\* (k \div 2, k \div 2) placed on (y, x); samples off the image do not count
\* (the default border value of erosion is the largest sample, of dilation
\* the smallest).  Erosion and dilation read the same window.
Window(m, y, x, k) ==
    {m[yy][xx] : yy \in {i \in 1..Rows(m) : y - (k \div 2) <= i /\ i <= y - (k \div 2) + k - 1},
                 xx \in {j \in 1..Cols(m) : x - (k \div 2) <= j /\ j <= x - (k \div 2) + k - 1}}

\* cv2.erode: the minimum under the kernel
Erode(m, k) ==
    [y \in 1..Rows(m) |-> [x \in 1..Cols(m) |->
        IF 0 \in Window(m, y, x, k) THEN 0 ELSE 255]]

\* cv2.dilate: the maximum under the kernel
Dilate(m, k) ==
    [y \in 1..Rows(m) |-> [x \in 1..Cols(m) |->
        IF 255 \in Window(m, y, x, k) THEN 255 ELSE 0]]

\* cv2.morphologyEx(src, op, kernel) for a k-by-k kernel of ones
cv2_morphologyEx(src, mop, k) ==
    CASE mop = "MORPH_OPEN" -> Dilate(Erode(src, k), k)
      [] mop = "MORPH_CLOSE" -> Erode(Dilate(src, k), k)

\* a & b on 8-bit samples
RECURSIVE BitAnd(_, _)
BitAnd(a, b) ==
    IF a = 0 \/ b = 0 THEN 0
    ELSE 2 * BitAnd(a \div 2, b \div 2) + (a % 2) * (b % 2)

\* cv2.bitwise_and(src1, src2, mask=m) into a new, zeroed destination
cv2_bitwise_and(src1, src2, m) ==
    [y \in 1..Rows(src1) |-> [x \in 1..Cols(src1) |->
        IF m[y][x] # 0
        THEN [c \in 1..3 |-> BitAnd(src1[y][x][c], src2[y][x][c])]
        ELSE <<0, 0, 0>>]]

\* faulty variant: the closing is applied before the opening
apply_mask_CloseFirst(im, lo, hi, k) ==
    LET hsv == [y \in 1..Rows(im) |-> [x \in 1..Cols(im) |-> cvtColor_BGR2HSV(im[y][x])]]
        m0 == cv2_inRange(hsv, lo, hi)
        m2 == IF k > 1
              THEN cv2_morphologyEx(cv2_morphologyEx(m0, "MORPH_CLOSE", k), "MORPH_OPEN", k)
              ELSE m0
    IN  [mask |-> m2, result |-> cv2_bitwise_and(im, im, m2)]

\* faulty variant: the result is cut with the mask taken before the filtering
apply_mask_RawMask(im, lo, hi, k) ==
    LET hsv == [y \in 1..Rows(im) |-> [x \in 1..Cols(im) |-> cvtColor_BGR2HSV(im[y][x])]]
        m0 == cv2_inRange(hsv, lo, hi)
        m2 == IF k > 1
              THEN cv2_morphologyEx(cv2_morphologyEx(m0, "MORPH_OPEN", k), "MORPH_CLOSE", k)
              ELSE m0
    IN  [mask |-> m2, result |-> cv2_bitwise_and(im, im, m0)]

\* apply_mask(image, lower_bound, upper_bound, kernel_size): (mask, result)
apply_mask(im, lo, hi, k) ==
    LET hsv == [y \in 1..Rows(im) |-> [x \in 1..Cols(im) |-> cvtColor_BGR2HSV(im[y][x])]]
        m0 == cv2_inRange(hsv, lo, hi)
        m2 == IF k > 1
              THEN cv2_morphologyEx(cv2_morphologyEx(m0, "MORPH_OPEN", k), "MORPH_CLOSE", k)
              ELSE m0
    IN  [mask |-> m2, result |-> cv2_bitwise_and(im, im, m2)]

----------------------------------------------------------------------------
(* The state machine.  The argument and return variables describe the call *)
(* that ran last: an operation sets its own and clears the others'.        *)

\* the part of the state each group of operations works on, before any call
NoKernelCall == value = 0 /\ kernel_size = 0

NoUI == trackbars = None /\ windows = {}

NoUICall == input_type = "" /\ lower_bound = None /\ upper_bound = None

NoMedia == fs = <<>> /\ cap = None

NoMediaCall == file_name = None /\ img = None

NoResizeCall ==
    shape = None /\ width = None /\ height = None /\ resized = None

NoMaskCall == image = None /\ mask = None /\ result = None

kernelVars == <<value, kernel_size>>

uiCallVars == <<input_type, lower_bound, upper_bound>>

mediaCallVars == <<file_name, img>>

resizeVars == <<shape, width, height, resized>>

maskVars == <<image, mask, result>>

\* get_valid_kernel_size(value)
GetValidKernelSize ==
    /\ op' = "get_valid_kernel_size"
    /\ err' = "None"
    /\ kernel_size' = get_valid_kernel_size(value)
    /\ UNCHANGED <<value, trackbars, windows, uiCallVars, fs, cap,
                   mediaCallVars, resizeVars, maskVars>>

\* create_trackbars(): the window and its six trackbars at their defaults
CreateTrackbars ==
    /\ op' = "create_trackbars"
    /\ err' = "None"
    /\ windows' = windows \cup {"Tracking"}
    /\ trackbars' = TrackbarInit
    /\ input_type' = ""
    /\ lower_bound' = None
    /\ upper_bound' = None
    /\ UNCHANGED <<kernelVars, fs, cap, mediaCallVars, resizeVars, maskVars>>

\* the user drags trackbar n to position x; HighGUI then calls nothing(x)
nothing(n, x) ==
    /\ trackbars # None
    /\ op' = "nothing"
    /\ err' = "None"
    /\ trackbars' = [trackbars EXCEPT ![n] = x]
    /\ input_type' = ""
    /\ lower_bound' = None
    /\ upper_bound' = None
    /\ UNCHANGED <<kernelVars, windows, fs, cap, mediaCallVars, resizeVars,
                   maskVars>>

\* get_trackbar_values() once the trackbars exist
GetTrackbarValues ==
    /\ trackbars # None
    /\ op' = "get_trackbar_values"
    /\ err' = "None"
    /\ LET r == get_trackbar_values(trackbars)
       IN  lower_bound' = r[1] /\ upper_bound' = r[2]
    /\ input_type' = ""
    /\ UNCHANGED <<kernelVars, trackbars, windows, fs, cap, mediaCallVars,
                   resizeVars, maskVars>>

\* the values create_display_windows is called with
InputTypes == {"img", "video", "audio", "IMG"}

\* create_display_windows(t)
CreateDisplayWindows(t) ==
    /\ op' = "create_display_windows"
    /\ input_type' = t
    /\ LET r == create_display_windows(windows, t)
       IN  err' = r.err /\ windows' = r.windows
    /\ lower_bound' = None
    /\ upper_bound' = None
    /\ UNCHANGED <<kernelVars, trackbars, fs, cap, mediaCallVars, resizeVars,
                   maskVars>>

\* display_results(...) with the arguments in shown not None
DisplayResults(shown) ==
    /\ op' = "display_results"
    /\ err' = "None"
    /\ windows' = display_results(windows, shown)
    /\ input_type' = ""
    /\ lower_bound' = None
    /\ upper_bound' = None
    /\ UNCHANGED <<kernelVars, trackbars, fs, cap, mediaCallVars, resizeVars,
                   maskVars>>

\* load_image(name)
LoadImage(name) ==
    \E r \in load_image(fs, name) :
        /\ op' = "load_image"
        /\ file_name' = name
        /\ err' = r.err
        /\ img' = r.img
        /\ UNCHANGED <<kernelVars, trackbars, windows, uiCallVars, fs, cap,
                       resizeVars, maskVars>>

\* load_video(name); cap becomes the VideoCapture line 127 constructed
LoadVideo(name) ==
    \E r \in load_video(fs, name) :
        /\ op' = "load_video"
        /\ file_name' = name
        /\ err' = r.err
        /\ img' = None
        /\ cap' = IF r.cap = None THEN cap ELSE r.cap
        /\ UNCHANGED <<kernelVars, trackbars, windows, uiCallVars, fs,
                       resizeVars, maskVars>>

\* release_video(cap)
ReleaseVideo ==
    /\ op' = "release_video"
    /\ file_name' = None
    /\ img' = None
    /\ LET r == release_video(cap)
       IN  err' = r.err /\ cap' = r.cap
    /\ UNCHANGED <<kernelVars, trackbars, windows, uiCallVars, fs,
                   resizeVars, maskVars>>

\* resize_with_aspect_ratio(image, width, height) on an image of shape shape
ResizeWithAspectRatio ==
    \E r \in resize_with_aspect_ratio(shape, width, height) :
        /\ op' = "resize_with_aspect_ratio"
        /\ err' = r.err
        /\ resized' = r.shape
        /\ UNCHANGED <<kernelVars, trackbars, windows, uiCallVars, fs, cap,
                       mediaCallVars, shape, width, height, maskVars>>

\* apply_mask(image, lower_bound, upper_bound, kernel_size)
ApplyMask ==
    /\ op' = "apply_mask"
    /\ err' = "None"
    /\ LET r == apply_mask(image, lower_bound, upper_bound, kernel_size)
       IN  mask' = r.mask /\ result' = r.result
    /\ UNCHANGED <<kernelVars, trackbars, windows, uiCallVars, fs, cap,
                   mediaCallVars, resizeVars, image>>

----------------------------------------------------------------------------
(* Specifications: one per group of operations.                            *)

InitKernel ==
    /\ op = "init" /\ err = "None"
    /\ value \in -MaxValue..MaxValue
    /\ kernel_size = 0
    /\ NoUI /\ NoUICall /\ NoMedia /\ NoMediaCall /\ NoResizeCall /\ NoMaskCall

NextKernel == GetValidKernelSize

SpecKernel == InitKernel /\ [][NextKernel]_vars

InitUI ==
    /\ op = "init" /\ err = "None"
    /\ NoKernelCall /\ NoUI /\ NoUICall /\ NoMedia /\ NoMediaCall
    /\ NoResizeCall /\ NoMaskCall

NextUI ==
    \/ CreateTrackbars
    \/ \E n \in TrackbarNames : \E x \in Positions(n) : nothing(n, x)
    \/ GetTrackbarValues
    \/ \E t \in InputTypes : CreateDisplayWindows(t)
    \/ \E shown \in SUBSET {"original", "mask", "result", "frame"} :
           DisplayResults(shown)

SpecUI == InitUI /\ [][NextUI]_vars

InitMedia ==
    /\ op = "init" /\ err = "None"
    /\ fs \in [Paths -> Entries]
    /\ cap = None
    /\ NoKernelCall /\ NoUI /\ NoUICall /\ NoMediaCall /\ NoResizeCall
    /\ NoMaskCall

NextMedia ==
    \/ \E name \in FileNames : LoadImage(name)
    \/ \E name \in FileNames : LoadVideo(name)
    \/ ReleaseVideo

SpecMedia == InitMedia /\ [][NextMedia]_vars

InitResize ==
    /\ op = "init" /\ err = "None"
    /\ shape \in (1..MaxDim) \X (1..MaxDim)
    /\ width \in {None} \cup {Some(d) : d \in 0..MaxDim}
    /\ height \in {None} \cup {Some(d) : d \in 0..MaxDim}
    /\ resized = None
    /\ NoKernelCall /\ NoUI /\ NoUICall /\ NoMedia /\ NoMediaCall /\ NoMaskCall

NextResize == ResizeWithAspectRatio

SpecResize == InitResize /\ [][NextResize]_vars

InitMask ==
    /\ op = "init" /\ err = "None"
    /\ image \in Frames
    /\ \E bp \in BoundPairs : lower_bound = bp[1] /\ upper_bound = bp[2]
    /\ kernel_size \in -1..MaxKernel
    /\ value = 0
    /\ mask = None /\ result = None
    /\ input_type = ""
    /\ NoUI /\ NoMedia /\ NoMediaCall /\ NoResizeCall

NextMask == ApplyMask

SpecMask == InitMask /\ [][NextMask]_vars

----------------------------------------------------------------------------
(* The claims.  The error taxonomy of the specification names Python's     *)
(* exceptions: NotFound is FileNotFoundError, AccessDenied PermissionError,*)
(* InvalidFormat and InvalidConfiguration ValueError, UnexpectedFailure    *)
(* RuntimeError.                                                           *)

Odd(n) == n % 2 = 1

\* C1: for every integer v, zero and negative included, get_valid_kernel_size
\* returns without an error an odd integer >= 1 that is >= v, and no smaller
\* odd integer >= 1 is >= v.
C1_KernelSmallestOdd ==
    op = "get_valid_kernel_size" =>
        /\ err = "None"
        /\ Odd(kernel_size)
        /\ kernel_size >= 1
        /\ kernel_size >= value
        /\ \A n \in 1..(kernel_size - 1) : Odd(n) => n < value

C1_Witness ==
    op = "get_valid_kernel_size" /\ value = -4 /\ kernel_size = 1

\* C2 as claimed: for odd v >= 1, get_valid_kernel_size(v) equals
\* get_valid_kernel_size(v + 1).
C2_OddEqualsNext ==
    (op = "get_valid_kernel_size" /\ Odd(value) /\ value >= 1) =>
        kernel_size = get_valid_kernel_size(value + 1)

\* C2 amended: for every even v, get_valid_kernel_size(v) equals
\* get_valid_kernel_size(v + 1); for odd v >= 1 the next input gives the next
\* odd value, get_valid_kernel_size(v + 1) = get_valid_kernel_size(v) + 2.
C2_EvenEqualsNext ==
    op = "get_valid_kernel_size" =>
        /\ ~Odd(value) => kernel_size = get_valid_kernel_size(value + 1)
        /\ (Odd(value) /\ value >= 1) =>
               get_valid_kernel_size(value + 1) = kernel_size + 2

C2_Witness ==
    op = "get_valid_kernel_size" /\ value = 4 /\ kernel_size = 5

\* the raw lower and upper readings of the trackbars
RawLower == <<trackbars.LH, trackbars.LS, trackbars.LV>>

RawUpper == <<trackbars.UH, trackbars.US, trackbars.UV>>

\* the trackbars with the lower and the upper triplet exchanged
Swapped(tb) ==
    [LH |-> tb.UH, LS |-> tb.US, LV |-> tb.UV,
     UH |-> tb.LH, US |-> tb.LS, UV |-> tb.LV]

\* C3: from the default controls and after any slider changes within the
\* slider ranges, get_trackbar_values returns per channel the smaller of the
\* two raw readings as lower and the larger as upper, so lower <= upper, and
\* the exchanged raw triplets give the same pair.
C3_BoundsOrdered ==
    op = "get_trackbar_values" =>
        /\ err = "None"
        /\ \A n \in TrackbarNames : trackbars[n] \in 0..TrackbarCount[n]
        /\ \A c \in 1..3 :
              /\ lower_bound[c] <= upper_bound[c]
              /\ lower_bound[c] <= RawLower[c] /\ lower_bound[c] <= RawUpper[c]
              /\ upper_bound[c] >= RawLower[c] /\ upper_bound[c] >= RawUpper[c]
              /\ {lower_bound[c], upper_bound[c]} = {RawLower[c], RawUpper[c]}
        /\ get_trackbar_values(Swapped(trackbars)) = <<lower_bound, upper_bound>>

C3_Witness ==
    /\ op = "get_trackbar_values"
    /\ \E c \in 1..3 : RawLower[c] > RawUpper[c]
    /\ \A c \in 1..3 : lower_bound[c] <= upper_bound[c]

ImagePath == path_join(images_dir, file_name)

VideoPath == path_join(videos_dir, file_name)

BadImageExtension ==
    op = "load_image" /\ ~endswith(lower(file_name), valid_extensions)

\* C4 as claimed: load_image with a file name whose extension is not an image
\* extension raises InvalidFormat (ValueError), whether or not the file
\* exists.
C4_BadExtensionAlwaysInvalidFormat ==
    BadImageExtension => err = "ValueError"

\* C4 amended: load_image with such a file name raises InvalidFormat
\* (ValueError) when the path exists; when it does not exist the error is
\* NotFound (FileNotFoundError), and when it is an unreadable file
\* AccessDenied (PermissionError).
C4_BadExtensionAfterAccess ==
    BadImageExtension =>
        LET e == Lookup(fs, ImagePath)
        IN  /\ img = None
            /\ e.kind = "missing" => err = "FileNotFoundError"
            /\ e.kind = "dir" => err = "ValueError"
            /\ (e.kind = "file" /\ ~e.readable) => err = "PermissionError"
            /\ (e.kind = "file" /\ e.readable) => err = "ValueError"

C4_Witness ==
    /\ BadImageExtension
    /\ file_name = notes_txt
    /\ Lookup(fs, ImagePath).kind = "file"
    /\ Lookup(fs, ImagePath).readable
    /\ err = "ValueError"

\* the file passed check_file_access and the extension check
PassedChecks(path, extensions) ==
    /\ Lookup(fs, path).kind = "file"
    /\ Lookup(fs, path).readable
    /\ endswith(lower(path), extensions)

\* C5: when the file passes the existence, readability and extension checks
\* but decoding gives no buffer or a zero-size buffer (load_image), or the
\* stream does not open (load_video), the caller gets InvalidFormat
\* (ValueError), not UnexpectedFailure (RuntimeError).
C5_DecodeFailureIsInvalidFormat ==
    /\ (/\ op = "load_image"
        /\ PassedChecks(ImagePath, valid_extensions)
        /\ Lookup(fs, ImagePath).content.type \in {"garbage", "video", "empty_image"})
       => err = "ValueError"
    /\ (/\ op = "load_video"
        /\ PassedChecks(VideoPath, valid_video_extensions)
        /\ cap = Some("unopened"))
       => err = "ValueError"

\* C6: create_display_windows with a mode other than "img" or "video" raises
\* InvalidConfiguration (ValueError) and creates no window: the windows are
\* those of before the call, none when there were none.  With "img" or
\* "video" it returns having created exactly "Original", "Mask" and "Result".
C6_WindowsOnlyForValidMode ==
    [][op' = "create_display_windows" =>
          IF input_type' \notin {"img", "video"}
          THEN err' = "ValueError" /\ windows' = windows
          ELSE /\ err' = "None"
               /\ {"Original", "Mask", "Result"} \subseteq windows'
               /\ windows' \ windows \subseteq {"Original", "Mask", "Result"}
               /\ windows \subseteq windows']_vars

C6_Witness ==
    /\ op = "create_display_windows"
    /\ input_type = "audio"
    /\ err = "ValueError"
    /\ windows = {}

BothTargets ==
    op = "resize_with_aspect_ratio" /\ width # None /\ height # None

\* C7 as claimed: with both a target width and a target height, the output
\* has exactly the given width and exactly the given height.
C7_BothAxesIndependent ==
    (BothTargets /\ err = "None") => resized = Some(<<height[1], width[1]>>)

\* C7 amended: with both given, the target height is ignored.  When the call
\* returns, the output has exactly the given width, and its height is the
\* source height scaled by width / w and truncated, int(h * (width / w)):
\* at most h * width / w and less than one below it, up to the rounding of
\* the double product.  It fails in cv2.resize when that height is 0.
C7_WidthWinsOverHeight ==
    BothTargets =>
        LET h == shape[1]
            w == shape[2]
        IN  IF err = "None"
            THEN /\ resized[1][2] = width[1]
                 /\ resized[1][1] >= 1
                 /\ resized[1][1] * w <= h * width[1]
                 /\ h * width[1] <= (resized[1][1] + 1) * w
            ELSE /\ err = "cv2.error"
                 /\ resized = None
                 /\ (width[1] = 0 \/ h * width[1] <= w)

C7_Witness ==
    /\ BothTargets
    /\ err = "None"
    /\ shape = <<2, 4>>
    /\ width = Some(2)
    /\ height = Some(3)
    /\ resized = Some(<<1, 2>>)

\* whether the pixel (y, x) of the frame has H, S and V within the bounds
InBounds(y, x) ==
    LET hsv == cvtColor_BGR2HSV(image[y][x])
    IN  \A c \in 1..3 : lower_bound[c] <= hsv[c] /\ hsv[c] <= upper_bound[c]

\* the mask before any filtering
Thresholded ==
    [y \in 1..Rows(image) |-> [x \in 1..Cols(image) |->
        IF InBounds(y, x) THEN 255 ELSE 0]]

\* C8: for bounds with lower <= upper and kernel size k, the mask is the
\* thresholded mask when k <= 1, and when k > 1 the thresholded mask after an
\* opening (erosion, then dilation) followed by a closing (dilation, then
\* erosion), each with the k-by-k square of ones.
C8_MaskIsOpenedThenClosed ==
    (op = "apply_mask" /\ \A c \in 1..3 : lower_bound[c] <= upper_bound[c]) =>
        LET k == kernel_size
        IN  mask = IF k <= 1
                   THEN Thresholded
                   ELSE Erode(Dilate(Dilate(Erode(Thresholded, k), k), k), k)

C8_Witness ==
    /\ op = "apply_mask"
    /\ kernel_size > 1
    /\ mask # Thresholded
    /\ \E y \in 1..Rows(mask) : \E x \in 1..Cols(mask) : mask[y][x] = 255

\* C9: every mask sample is 0 or 255; the result has the frame's dimensions,
\* is the frame's pixel where the mask is 255 and black where it is 0; a
\* frame with no pixel in range gives an all-zero mask and an all-black
\* result, one with every pixel in range an all-255 mask and the frame itself,
\* for every kernel size.
C9_ResultIsFrameUnderMask ==
    op = "apply_mask" =>
        LET ys == 1..Rows(image)
            xs == 1..Cols(image)
        IN  /\ Rows(mask) = Rows(image) /\ Rows(result) = Rows(image)
            /\ \A y \in ys : Len(mask[y]) = Cols(image) /\ Len(result[y]) = Cols(image)
            /\ \A y \in ys : \A x \in xs :
                  /\ mask[y][x] \in {0, 255}
                  /\ mask[y][x] = 255 => result[y][x] = image[y][x]
                  /\ mask[y][x] = 0 => result[y][x] = Black
            /\ (\A y \in ys : \A x \in xs : ~InBounds(y, x)) =>
                  \A y \in ys : \A x \in xs : mask[y][x] = 0 /\ result[y][x] = Black
            /\ (\A y \in ys : \A x \in xs : InBounds(y, x)) =>
                  /\ \A y \in ys : \A x \in xs : mask[y][x] = 255
                  /\ result = image

C9_Witness ==
    /\ op = "apply_mask"
    /\ kernel_size > 1
    /\ \A y \in 1..Rows(image) : \A x \in 1..Cols(image) :
          cvtColor_BGR2HSV(image[y][x]) = <<60, 200, 200>> /\ InBounds(y, x)
    /\ lower_bound = <<50, 100, 100>>
    /\ result = image

\* C10: release_video never fails and leaves the stream not open, whether cap
\* is None, never opened, open or already released: an open stream becomes
\* released, and in every other state, so also on a second call, nothing
\* changes.
C10_ReleaseIdempotent ==
    [][op' = "release_video" =>
          /\ err' = "None"
          /\ ~isOpened(cap')
          /\ cap' = IF cap = Some("open") THEN Some("released") ELSE cap
          /\ release_video(cap').cap = cap']_vars

C10_Witness ==
    op = "release_video" /\ err = "None" /\ cap = Some("released")

====
